---- MODULE Spec2Model ----
(***************************************************************************)
(* Model of similarity-analyzer/data_formatter/main.py (PerfSpect): the    *)
(* batch tool that reads N metric reports, selects metric names and writes *)
(* one comparison table to a CSV file.                                     *)
(*                                                                         *)
(* Text is modelled as a sequence of chunks (a name is the concatenation   *)
(* of its chunks); every text that begins with "metric_TMA" or ends with   *)
(* ".csv" is written with that part as a chunk of its own, so startswith   *)
(* and endswith are prefix and suffix tests on chunk sequences.            *)
(***************************************************************************)
EXTENDS Integers, Sequences, FiniteSets, TLC

VARIABLES
    pc,         \* position of the process in main()
    args,       \* the parsed command line (argparse namespace)
    jsondata,   \* main: list of loaded datasets, one per file read so far
    fields,     \* main: header row, "Metric" then the filenames read so far
    metriclist, \* compare_metrics / compare_metrics_all: the selected names
    selected,   \* TRUE once the metric selection has been computed
    dest,       \* the destination file args.output
    exc,        \* the exception that ended the run ("none" while it runs)
    status,     \* exit status of the process (-1 while it runs)
    defects,    \* what is wrong with each input file read so far
    prev        \* the previous run in predefined mode (runs in sequence)

vars == <<pc, args, jsondata, fields, metriclist, selected, dest, exc, status,
          defects, prev>>

----------------------------------------------------------------------------
(* Bounds of the model *)

MaxFiles == 2
MaxRows == 2
MaxList == 2

----------------------------------------------------------------------------
(* Texts *)

N_TMA == <<"metric_TMA", "_Frontend">>
N_CPI == <<"metric_CPI">>
N_X == <<"x_", "metric_TMA">>
D == <<"d">>
NA == <<"NA">>

\* the metric names that occur in input files
Names == {N_TMA, N_CPI, N_X}
\* the tokens that occur after --metriclist
Tokens == {D, N_CPI}
\* the values of --output
Outs == {<<"compareFile", ".csv">>, <<"result", ".txt">>, <<"out", ".csv", ".bak">>}

Digits == <<"1", "2", "3", "4", "5", "6">>
FileName(i) == <<"file", Digits[i]>>
\* the value cell of data row r of input file i
Cell(i, r) == <<Digits[i], ".", Digits[r]>>

SeqsUpTo(S, n) == UNION {[1..k -> S] : k \in 0..n}
Injective(s) == \A i, j \in 1..Len(s) : s[i] = s[j] => i = j

StartsWith(s, p) == Len(s) >= Len(p) /\ SubSeq(s, 1, Len(p)) = p
EndsWith(s, p) == Len(s) >= Len(p) /\ SubSeq(s, Len(s) - Len(p) + 1, Len(s)) = p

----------------------------------------------------------------------------
(* Python dict: insertion-ordered, as a sequence of <<key, value>> pairs *)

HasKey(data, k) == \E j \in 1..Len(data) : data[j][1] = k
Get(data, k) == data[CHOOSE j \in 1..Len(data) : data[j][1] = k][2]
Keys(data) == [j \in 1..Len(data) |-> data[j][1]]
KeySet(data) == {data[j][1] : j \in 1..Len(data)}
\* data[k] = v: a new key goes last, an old key keeps its place
DictSet(data, k, v) ==
    IF HasKey(data, k)
    THEN [j \in 1..Len(data) |-> IF data[j][1] = k THEN <<k, v>> ELSE data[j]]
    ELSE Append(data, <<k, v>>)

----------------------------------------------------------------------------
(* Input files.  A file is what is on disk under one input path; the value *)
(* cell of data row r of the i-th input is Cell(i, r), except the row      *)
(* `bad` of a CSV file, whose avg cell is the text "abc".                  *)

\* the metric column of a file: up to MaxRows data rows, each metric once
RowSeqs == {s \in SeqsUpTo(Names, MaxRows) : Injective(s)}
Columns == {"metrics", "avg"}

CsvFiles ==
    {[readable |-> FALSE, header |-> Columns, rows |-> <<>>, bad |-> 0]}
    \cup {f \in [readable : {TRUE}, header : SUBSET Columns, rows : RowSeqs,
                 bad : 0..MaxRows] :
            /\ f.bad <= Len(f.rows)
            /\ "avg" \notin f.header => f.bad = 0}

XlsFiles ==
    {[readable |-> FALSE, sheet |-> TRUE, rows |-> <<>>]}
    \cup [readable : {TRUE}, sheet : BOOLEAN, rows : RowSeqs]

AvgCell(i, f, r) == IF r = f.bad THEN <<"abc">> ELSE Cell(i, r)

\* float(text): the number that a numeric text denotes (anything else is a
\* ValueError); a number is written as <<"float">> and its digits
IsNumeric(t) == Len(t) = 3 /\ t[2] = "."
Float(t) == <<"float">> \o t

\* what is wrong with a file (a file can have several defects), and the
\* number of its data rows
CsvDefects(f) ==
    [what |-> (IF f.readable THEN {} ELSE {"unreadable"})
              \cup (IF "metrics" \in f.header THEN {} ELSE {"no_metrics"})
              \cup (IF "avg" \in f.header THEN {} ELSE {"no_avg"})
              \cup (IF f.bad > 0 THEN {"not_numeric"} ELSE {}),
     rows |-> Len(f.rows)]
XlsDefects(f) ==
    [what |-> (IF f.readable THEN {} ELSE {"unreadable"})
              \cup (IF f.sheet THEN {} ELSE {"no_sheet"}),
     rows |-> Len(f.rows)]

----------------------------------------------------------------------------
(* Format readers.  The result is [exc, data]: exc = "none" and the        *)
(* dataset, or the exception that leaves the reader.                       *)

Ok(data) == [exc |-> "none", data |-> data]
Raise(e) == [exc |-> e, data |-> <<>>]

\* the for loop of csv2json from data row r on
RECURSIVE CsvRows(_, _, _, _)
CsvRows(i, f, r, data) ==
    IF r > Len(f.rows) THEN Ok(data)
    ELSE IF "metrics" \notin f.header THEN Raise("KeyError")
    ELSE IF "avg" \notin f.header THEN Raise("KeyError")
    ELSE IF ~IsNumeric(AvgCell(i, f, r)) THEN Raise("ValueError")
    ELSE CsvRows(i, f, r + 1, DictSet(data, f.rows[r], Float(AvgCell(i, f, r))))

\* except KeyError: raise SystemExit() from invalid_csv_key
CsvExcept(res) == IF res.exc = "KeyError" THEN Raise("SystemExit()") ELSE res

\* mutant: an unreadable file is skipped as an empty dataset
csv2json_SkipsUnreadable(i, f) ==
    IF f.readable
    THEN CsvExcept(CsvRows(i, f, 1, <<>>))
    ELSE Ok(<<>>)

csv2json(i, f) ==
    IF f.readable
    THEN CsvExcept(CsvRows(i, f, 1, <<>>))
    ELSE Raise("SystemExit(msg)")

\* the for loop of excel2json from data row r on
RECURSIVE XlsRows(_, _, _, _)
XlsRows(i, f, r, data) ==
    IF r > Len(f.rows) THEN Ok(data)
    ELSE XlsRows(i, f, r + 1, DictSet(data, f.rows[r], Cell(i, r)))

\* except xlrd.XLRDError: print(e); sys.exit(1)
XlsExcept(res) == IF res.exc = "XLRDError" THEN Raise("SystemExit(1)") ELSE res

excel2json(i, f) ==
    IF f.readable
    THEN XlsExcept(IF f.sheet THEN XlsRows(i, f, 1, <<>>) ELSE Raise("XLRDError"))
    ELSE Raise("SystemExit(msg)")

\* the exit status of a process ended by exception e (Python's rules:
\* SystemExit() exits 0, SystemExit(n) exits n, SystemExit(text) and any
\* uncaught exception exit 1)
ExitStatus(e) == IF e = "SystemExit()" THEN 0 ELSE 1

----------------------------------------------------------------------------
(* Metric selection and table rows *)

TMA_PREFIX == <<"metric_TMA">>
FixedNames == {<<"metric_CPU operating frequency (in GHz)">>,
               <<"metric_CPU utilization %">>,
               <<"metric_CPU utilization% in kernel mode">>,
               <<"metric_CPI">>}

\* mutant: "metric_TMA" anywhere in the name
IsPredefined_Contains(m) ==
    (\E j \in 1..Len(m) : m[j] = "metric_TMA") \/ m \in FixedNames

\* the condition of the list comprehension of compare_metrics
IsPredefined(m) == StartsWith(m, TMA_PREFIX) \/ m \in FixedNames

\* mutant: the keys of every dataset are scanned, not only the first's
RECURSIVE KeysFrom(_, _)
KeysFrom(datalist, i) ==
    IF i > Len(datalist) THEN <<>>
    ELSE Keys(datalist[i]) \o
         SelectSeq(KeysFrom(datalist, i + 1), LAMBDA k : ~HasKey(datalist[i], k))
Predefined_AllDatasets(datalist) == SelectSeq(KeysFrom(datalist, 1), IsPredefined)

\* [m for m in datalist[0].keys() if ...]
Predefined(datalist) == SelectSeq(Keys(datalist[1]), IsPredefined)

\* mutant: "d" anywhere in the list selects the predefined list
Requested_AnyD(tokens) ==
    IF \E j \in 1..Len(tokens) : tokens[j] = D THEN <<>> ELSE tokens

\* main: metriclist = args.metriclist; if args.metriclist == ["d"]: metriclist = []
Requested(tokens) == IF tokens = <<D>> THEN <<>> ELSE tokens

\* compare_metrics: if not metriclist: metriclist = [predefined]
Select(tokens, datalist) ==
    IF Requested(tokens) = <<>> THEN Predefined(datalist) ELSE Requested(tokens)

\* mutant: an absent metric gives an empty cell
RowCell_Empty(metric, data) ==
    IF HasKey(data, metric) THEN Get(data, metric) ELSE <<"">>

\* the cell of one dataset in the row of metric
RowCell(metric, data) == IF HasKey(data, metric) THEN Get(data, metric) ELSE NA

\* mutant: a dataset without the metric adds no cell
Row_SkipsAbsent(metric, datalist) ==
    <<metric>> \o
    SelectSeq([i \in 1..Len(datalist) |->
                  IF HasKey(datalist[i], metric) THEN Get(datalist[i], metric) ELSE NA],
              LAMBDA c : c # NA)

\* rowlines: the metric, then one cell per dataset in datalist order
Row(metric, datalist) ==
    <<metric>> \o [i \in 1..Len(datalist) |-> RowCell(metric, datalist[i])]

\* allkeys: the keys of every dataset
AllKeys(datalist) == UNION {KeySet(datalist[i]) : i \in 1..Len(datalist)}

\* mutant: list(allkeys), the keys of every dataset without the set()
RECURSIVE ConcatKeys(_, _)
ConcatKeys(datalist, i) ==
    IF i > Len(datalist) THEN <<>>
    ELSE Keys(datalist[i]) \o ConcatKeys(datalist, i + 1)
UniqueKeys_NoSet(datalist) == {ConcatKeys(datalist, 1)}

\* list(set(allkeys)): every key once, in an order Python does not fix
UniqueKeys(datalist) ==
    {s \in [1..Cardinality(AllKeys(datalist)) -> AllKeys(datalist)] : Injective(s)}

\* invalid_filename raises SystemError unless the name ends with ".csv"
invalid_filename(filename) == ~EndsWith(filename, <<".csv">>)

----------------------------------------------------------------------------
(* The process *)

Untouched == [state |-> "untouched", content |-> <<>>]
NoPrev == [run |-> FALSE, keys |-> <<>>, selected |-> <<>>]

\* files: the number of names in --files (0: the flag is absent)
Args == [files : 0..MaxFiles, metriclist : SeqsUpTo(Tokens, MaxList),
         output : Outs, perfspect : BOOLEAN]

Start(a) ==
    /\ pc = "main"
    /\ args = a
    /\ jsondata = <<>>
    /\ fields = <<>>
    /\ metriclist = <<>>
    /\ selected = FALSE
    /\ dest = Untouched
    /\ exc = "none"
    /\ status = -1
    /\ defects = <<>>

Init == (\E a \in Args : Start(a)) /\ prev = NoPrev

\* an exception ends the process
Abort(e) ==
    /\ pc' = "exit"
    /\ exc' = e
    /\ status' = ExitStatus(e)

\* main, after parse_args: filenames, jsondata = [], fields = ["Metric"]
ParseArgs ==
    /\ pc = "main"
    /\ IF args.files > 0
       THEN /\ pc' = "read"
            /\ fields' = <<<<"Metric">>>>
            /\ UNCHANGED <<exc, status>>
       ELSE /\ Abort("SystemError")
            /\ UNCHANGED fields
    /\ UNCHANGED <<args, jsondata, metriclist, selected, dest, defects, prev>>

\* mutant: the last file is not read
AfterRead_SkipsLast(i) ==
    IF i + 1 < args.files THEN "read"
    ELSE IF args.metriclist # <<>> THEN "cm_select"
    ELSE "all_open"

\* where main goes after reading file i: the next file, or after the last
\* one compare_metrics or compare_metrics_all
AfterRead(i) ==
    IF i < args.files THEN "read"
    ELSE IF args.metriclist # <<>> THEN "cm_select"
    ELSE "all_open"

\* one iteration of "for filename in filenames", and after the last one the
\* dispatch on args.metriclist
ReadFile ==
    /\ pc = "read"
    /\ \E f \in (IF args.perfspect THEN CsvFiles ELSE XlsFiles) :
        LET i == Len(jsondata) + 1
            res == IF args.perfspect THEN csv2json(i, f) ELSE excel2json(i, f)
        IN /\ defects' = Append(defects,
                            IF args.perfspect THEN CsvDefects(f) ELSE XlsDefects(f))
           /\ IF res.exc = "none"
              THEN /\ jsondata' = Append(jsondata, res.data)
                   /\ fields' = Append(fields, FileName(i))
                   /\ pc' = AfterRead(i)
                   /\ UNCHANGED <<exc, status>>
              ELSE /\ Abort(res.exc)
                   /\ UNCHANGED <<jsondata, fields>>
    /\ UNCHANGED <<args, metriclist, selected, dest, prev>>

\* compare_metrics, lines 55-68: the metric list
SelectMetrics ==
    /\ pc = "cm_select"
    /\ metriclist' = Select(args.metriclist, jsondata)
    /\ selected' = TRUE
    /\ pc' = "cm_open"
    /\ UNCHANGED <<args, jsondata, fields, dest, exc, status, defects, prev>>

\* mutant: the file is opened, and only then is its name checked
Open_ThenCheck(next) ==
    /\ dest' = [state |-> "open", content |-> <<>>]
    /\ IF invalid_filename(args.output)
       THEN Abort("SystemError")
       ELSE pc' = next /\ UNCHANGED <<exc, status>>
    /\ UNCHANGED <<args, jsondata, fields, metriclist, selected, defects, prev>>

\* if not invalid_filename(out): with open(out, "w") as csvfile
Open(next) ==
    /\ IF invalid_filename(args.output)
       THEN /\ Abort("SystemError")
            /\ UNCHANGED dest
       ELSE /\ dest' = [state |-> "open", content |-> <<>>]
            /\ pc' = next
            /\ UNCHANGED <<exc, status>>
    /\ UNCHANGED <<args, jsondata, fields, metriclist, selected, defects, prev>>

\* csvwriter.writerow(fields)
Header(next) ==
    /\ dest' = [dest EXCEPT !.content = Append(@, fields)]
    /\ pc' = next
    /\ UNCHANGED <<args, jsondata, fields, metriclist, selected, exc, status,
                   defects, prev>>

\* one iteration of "for metric in ...": build rowlines, writerow(rowlines)
WriteRow(at) ==
    /\ pc = at
    /\ Len(dest.content) <= Len(metriclist)
    /\ dest' = [dest EXCEPT !.content =
                   Append(@, Row(metriclist[Len(dest.content)], jsondata))]
    /\ UNCHANGED <<pc, args, jsondata, fields, metriclist, selected, exc, status,
                   defects, prev>>

\* the loop is over: the file is closed, main prints and returns
Finish(at) ==
    /\ pc = at
    /\ Len(dest.content) > Len(metriclist)
    /\ dest' = [dest EXCEPT !.state = "closed"]
    /\ pc' = "done"
    /\ status' = 0
    /\ UNCHANGED <<args, jsondata, fields, metriclist, selected, exc, defects, prev>>

OpenOutput == pc = "cm_open" /\ Open("cm_header")
WriteHeader == pc = "cm_header" /\ Header("cm_rows")
WriteMetricRow == WriteRow("cm_rows")
FinishMetrics == Finish("cm_rows")

OpenOutputAll == pc = "all_open" /\ Open("all_header")
WriteHeaderAll == pc = "all_header" /\ Header("all_union")

\* compare_metrics_all, lines 96-100: uniquekeys
UnionKeys ==
    /\ pc = "all_union"
    /\ metriclist' \in UniqueKeys(jsondata)
    /\ selected' = TRUE
    /\ pc' = "all_rows"
    /\ UNCHANGED <<args, jsondata, fields, dest, exc, status, defects, prev>>

WriteMetricRowAll == WriteRow("all_rows")
FinishAll == Finish("all_rows")

Next ==
    \/ ParseArgs
    \/ ReadFile
    \/ SelectMetrics
    \/ OpenOutput
    \/ WriteHeader
    \/ WriteMetricRow
    \/ FinishMetrics
    \/ OpenOutputAll
    \/ WriteHeaderAll
    \/ UnionKeys
    \/ WriteMetricRowAll
    \/ FinishAll

Spec == Init /\ [][Next]_vars

----------------------------------------------------------------------------
(* Two runs in sequence in predefined mode ("-m d"): the second starts     *)
(* when the first has finished, on files whose contents may have changed.  *)

PairArgs == {a \in Args : a.metriclist = <<D>> /\ ~invalid_filename(a.output)}

InitPair == (\E a \in PairArgs : Start(a)) /\ prev = NoPrev

Restart ==
    /\ pc = "done"
    /\ ~prev.run
    /\ prev' = [run |-> TRUE, keys |-> Keys(jsondata[1]), selected |-> metriclist]
    /\ args' \in PairArgs
    /\ pc' = "main"
    /\ jsondata' = <<>>
    /\ fields' = <<>>
    /\ metriclist' = <<>>
    /\ selected' = FALSE
    /\ dest' = Untouched
    /\ exc' = "none"
    /\ status' = -1
    /\ defects' = <<>>

NextPair ==
    \/ ParseArgs
    \/ ReadFile
    \/ SelectMetrics
    \/ OpenOutput
    \/ WriteHeader
    \/ WriteMetricRow
    \/ FinishMetrics
    \/ Restart

SpecPair == InitPair /\ [][NextPair]_vars

----------------------------------------------------------------------------
(* Vocabulary of the properties *)

UnionMode == args.metriclist = <<>>
PredefinedMode == args.metriclist = <<D>>
ExplicitMode == ~UnionMode /\ ~PredefinedMode

Done == pc = "done"
NFiles == args.files
\* the data rows written so far (the header is line 1 of the file)
DataRows == IF Len(dest.content) = 0 THEN <<>> ELSE Tail(dest.content)
RowNames == [r \in 1..Len(DataRows) |-> DataRows[r][1]]
Occurs(m, s) == Cardinality({j \in 1..Len(s) : s[j] = m})
\* cell c is a value cell of the i-th input file, as its reader returns it
FromFile(c, i) ==
    \E r \in 1..MaxRows :
        c = (IF args.perfspect THEN <<"float">> \o Cell(i, r) ELSE Cell(i, r))

\* the reader raises on a file with this description
FailsReading(d) ==
    \/ "unreadable" \in d.what
    \/ "no_sheet" \in d.what
    \/ "not_numeric" \in d.what
    \/ d.rows > 0 /\ d.what \cap {"no_metrics", "no_avg"} # {}

----------------------------------------------------------------------------
(* C1, as stated: whenever an input file is unreadable, lacks the sheet,   *)
(* lacks the metrics or avg column or holds a non-numeric avg, the run     *)
(* aborts and the destination is never opened.                             *)
C1_Original ==
    \A k \in 1..Len(defects) :
        defects[k].what # {} => dest = Untouched /\ ~Done

(* C1, amended: whenever reading input k fails (unreadable, sheet missing, *)
(* metrics or avg column missing from a file with at least one data row,   *)
(* avg not numeric), the run has aborted at k with the k-1 datasets before *)
(* it, and the destination is untouched; and the destination is touched    *)
(* only after all N inputs were read without failure.                      *)
C1_FailedReadLeavesDestination ==
    /\ \A k \in 1..Len(defects) :
          FailsReading(defects[k]) =>
              /\ pc = "exit"
              /\ k = Len(defects)
              /\ Len(jsondata) = k - 1
              /\ dest = Untouched
    /\ dest # Untouched =>
          /\ Len(defects) = NFiles
          /\ \A k \in 1..NFiles : ~FailsReading(defects[k])

C1_Witness ==
    /\ pc = "exit"
    /\ NFiles = 2
    /\ Len(defects) = 2
    /\ defects[1].what = {}
    /\ "unreadable" \in defects[2].what
    /\ dest = Untouched

----------------------------------------------------------------------------
(* C2: in every selection mode, when the destination path does not end     *)
(* with ".csv" the destination is never opened: nothing is created,        *)
(* truncated or written, and a run that got as far as the check failed.    *)
C2_InvalidOutputNeverOpened ==
    ~EndsWith(args.output, <<".csv">>) =>
        /\ dest = Untouched
        /\ ~Done
        /\ pc \notin {"cm_header", "cm_rows", "all_header", "all_union", "all_rows"}

C2_Witness ==
    /\ pc = "exit"
    /\ exc = "SystemError"
    /\ Len(jsondata) = NFiles
    /\ NFiles = 2
    /\ UnionMode
    /\ args.output = <<"out", ".csv", ".bak">>
    /\ dest = Untouched

----------------------------------------------------------------------------
(* C3, as stated: every fatal condition ends the process with a non-zero   *)
(* exit status; no run that an exception ended has status 0.               *)
C3_FatalExitsNonZero == pc = "exit" => status # 0

----------------------------------------------------------------------------
(* C4: in a successful run, in every selection mode, there are as many     *)
(* data rows as selected metric names, and the header and every data row   *)
(* have 1 + (number of input files) cells.                                 *)
C4_RowCountAndWidth ==
    Done =>
        /\ Len(DataRows) = Len(metriclist)
        /\ Len(dest.content[1]) = 1 + NFiles
        /\ \A r \in 1..Len(DataRows) : Len(DataRows[r]) = 1 + NFiles

C4_Witness ==
    /\ Done
    /\ UnionMode
    /\ NFiles = 2
    /\ Len(DataRows) = 2
    /\ \E r \in 1..2 : DataRows[r][2] = NA
    /\ \E r \in 1..2 : DataRows[r][3] # NA

----------------------------------------------------------------------------
(* C5: column i of the table belongs to the i-th input file (the header    *)
(* labels are the filenames in the order given); in the row of metric m    *)
(* the cell of column i is NA when m is not a key of dataset i, and is     *)
(* dataset i's value for m, a cell of file i, when it is.                  *)
C5_CellIsValueOrNA ==
    /\ Len(dest.content) > 0 =>
          /\ dest.content[1][1] = <<"Metric">>
          /\ \A i \in 1..NFiles : dest.content[1][i + 1] = FileName(i)
    /\ \A r \in 1..Len(DataRows) : \A i \in 1..NFiles :
          LET m == DataRows[r][1]
              cell == DataRows[r][i + 1]
          IN IF HasKey(jsondata[i], m)
             THEN cell = Get(jsondata[i], m) /\ FromFile(cell, i)
             ELSE cell = NA

C5_Witness ==
    /\ Done
    /\ NFiles = 2
    /\ \E r \in 1..Len(DataRows) :
          /\ ~HasKey(jsondata[1], DataRows[r][1])
          /\ HasKey(jsondata[2], DataRows[r][1])
          /\ DataRows[r][2] = NA
          /\ args.perfspect
          /\ DataRows[r][3] = <<"float", "2", ".", "2">>

----------------------------------------------------------------------------
(* C6: in union mode the selected list holds every metric name that is a   *)
(* key of some dataset exactly once and no other name, and the output has  *)
(* exactly one row for each of them.                                       *)
C6_UnionIsExactlyAllKeys ==
    UnionMode /\ selected =>
        /\ \A m \in Names :
              Occurs(m, metriclist) =
                  IF \E i \in 1..NFiles : HasKey(jsondata[i], m) THEN 1 ELSE 0
        /\ \A j \in 1..Len(metriclist) : metriclist[j] \in Names
        /\ Done => RowNames = metriclist

C6_Witness ==
    /\ Done
    /\ UnionMode
    /\ NFiles = 2
    /\ HasKey(jsondata[1], N_CPI) /\ HasKey(jsondata[2], N_CPI)
    /\ HasKey(jsondata[2], N_TMA) /\ ~HasKey(jsondata[1], N_TMA)
    /\ Len(RowNames) = 2

----------------------------------------------------------------------------
(* C7: in predefined mode the selected list depends only on the keys of    *)
(* the first dataset: a run whose first dataset has the same keys in the   *)
(* same order as the first dataset of the run before it selects the same   *)
(* list, whatever the number, the keys and the values of the other         *)
(* datasets are.  (Checked under SpecPair.)                                *)
C7_PredefinedDependsOnFirstKeys ==
    prev.run /\ selected /\ Keys(jsondata[1]) = prev.keys =>
        metriclist = prev.selected

C7_Witness ==
    /\ prev.run
    /\ Done
    /\ NFiles = 2
    /\ Keys(jsondata[1]) = prev.keys
    /\ prev.keys = <<N_X, N_CPI>>
    /\ HasKey(jsondata[2], N_TMA)
    /\ metriclist = <<N_CPI>>

----------------------------------------------------------------------------
(* C8: in explicit mode the names of the output rows are the caller's      *)
(* list, verbatim (names, order, multiplicity), and the row of a name that *)
(* is a key of no dataset has NA in every data column.                     *)
C8_ExplicitListVerbatim ==
    ExplicitMode =>
        /\ selected => metriclist = args.metriclist
        /\ Done =>
              /\ RowNames = args.metriclist
              /\ \A r \in 1..Len(DataRows) :
                    (\A i \in 1..NFiles : ~HasKey(jsondata[i], DataRows[r][1]))
                        => \A i \in 1..NFiles : DataRows[r][i + 1] = NA

C8_Witness ==
    /\ Done
    /\ ExplicitMode
    /\ NFiles = 2
    /\ args.metriclist = <<D, N_CPI>>
    /\ HasKey(jsondata[2], N_CPI)
    /\ DataRows[1] = <<D, NA, NA>>

----------------------------------------------------------------------------
(* C9, as stated: all inputs are read, then the metrics are selected, then *)
(* the output is written: the destination is not opened and nothing is     *)
(* written before the selection has been computed.                         *)
C9_Original ==
    /\ selected => Len(jsondata) = NFiles
    /\ dest # Untouched => selected

(* C9, amended: the selection and the opening of the destination both come *)
(* after all inputs have been read; in explicit and predefined mode the    *)
(* destination is opened after the selection; in union mode it is opened   *)
(* and the header is written before the selection; in every mode no data   *)
(* row is written before the selection and before the header.              *)
C9_PhaseOrder ==
    /\ fields # <<>> => Len(fields) = Len(jsondata) + 1
    /\ Len(jsondata) <= NFiles
    /\ selected => Len(jsondata) = NFiles /\ pc # "read"
    /\ dest # Untouched => Len(jsondata) = NFiles /\ pc # "read"
    /\ ~UnionMode /\ dest # Untouched => selected
    /\ UnionMode /\ selected => Len(dest.content) >= 1
    /\ Len(dest.content) >= 2 => selected
    /\ Len(dest.content) >= 1 => dest.content[1] = fields

C9_Witness ==
    /\ UnionMode
    /\ pc = "all_union"
    /\ ~selected
    /\ NFiles = 2
    /\ dest.state = "open"
    /\ Len(dest.content) = 1

----------------------------------------------------------------------------
(* C10: in predefined mode every selected name is a key of the first       *)
(* dataset that starts with "metric_TMA" or is one of the four fixed       *)
(* names, in the first dataset's key order; so a fixed name that the first *)
(* dataset lacks has no row, a first dataset without a matching key gives  *)
(* a header-only output, and the first data column of every row is the     *)
(* first dataset's value, never the NA of an absent key.                   *)
Pos(m, s) == CHOOSE j \in 1..Len(s) : s[j] = m
Matches(m) ==
    \/ StartsWith(m, <<"metric_TMA">>)
    \/ m = <<"metric_CPU operating frequency (in GHz)">>
    \/ m = <<"metric_CPU utilization %">>
    \/ m = <<"metric_CPU utilization% in kernel mode">>
    \/ m = <<"metric_CPI">>

C10_PredefinedFromFirstDataset ==
    PredefinedMode /\ selected =>
        /\ \A j \in 1..Len(metriclist) :
              HasKey(jsondata[1], metriclist[j]) /\ Matches(metriclist[j])
        /\ \A j, k \in 1..Len(metriclist) :
              j < k => Pos(metriclist[j], Keys(jsondata[1]))
                          < Pos(metriclist[k], Keys(jsondata[1]))
        /\ Done =>
              /\ RowNames = metriclist
              /\ \A m \in FixedNames :
                    ~HasKey(jsondata[1], m) => Occurs(m, RowNames) = 0
              /\ (\A j \in 1..Len(jsondata[1]) : ~Matches(Keys(jsondata[1])[j]))
                    => Len(dest.content) = 1
              /\ \A r \in 1..Len(DataRows) :
                    /\ HasKey(jsondata[1], DataRows[r][1])
                    /\ DataRows[r][2] = Get(jsondata[1], DataRows[r][1])
                    /\ DataRows[r][2] # NA

C10_Witness ==
    /\ Done
    /\ PredefinedMode
    /\ NFiles = 2
    /\ Keys(jsondata[1]) = <<N_TMA, N_X>>
    /\ HasKey(jsondata[2], N_CPI)
    /\ RowNames = <<N_TMA>>
    /\ ~args.perfspect
    /\ DataRows[1][2] = Cell(1, 1)

====
